---- MODULE Spec2Model ----
(***************************************************************************)
(* A model of spacy/_ml.py: the tensor-contraction layers                  *)
(* (PrecomputableAffine, PrecomputableMaxouts), the flatten layers         *)
(* (_flatten_add_lengths, flatten), reapply and rebatch.                   *)
(*                                                                         *)
(* Arrays are records [shape, data]: shape is the numpy shape (a sequence  *)
(* of naturals), data maps every index tuple (1-based) to an integer.      *)
(* Axis numbers and permutations are written 0-based, as in the source.    *)
(***************************************************************************)
EXTENDS Integers, Sequences, FiniteSets, TLC

(* ------------------------------------------------------------------ *)
(* Bounds of the model                                                  *)
(* ------------------------------------------------------------------ *)
MaxDim == 2
MaxBatch == 2
MaxCalls == 2
MaxSeqs == 2
MaxLen == 2
MaxPad == 2
MaxTimes == 3
MaxSize == 3
MaxRows == 4

(* ------------------------------------------------------------------ *)
(* numpy arrays                                                         *)
(* ------------------------------------------------------------------ *)
RECURSIVE Indices(_)
Indices(s) ==
  IF s = <<>> THEN {<<>>}
  ELSE {<<k>> \o t : k \in 1..Head(s), t \in Indices(Tail(s))}

\* the index tuples of an array of shape s, in row-major order
RECURSIVE IndexSeq(_)
IndexSeq(s) ==
  IF s = <<>> THEN << <<>> >>
  ELSE LET rest == IndexSeq(Tail(s))
           n == Len(rest)
       IN [j \in 1..(Head(s) * n) |->
             <<((j - 1) \div n) + 1>> \o rest[((j - 1) % n) + 1]]

\* q[1] + ... + q[n]
RECURSIVE SumSeq(_, _)
SumSeq(q, n) == IF n = 0 THEN 0 ELSE q[n] + SumSeq(q, n - 1)

Arr(s, d) == [shape |-> s, data |-> d]

Range(q) == {q[j] : j \in DOMAIN q}

\* the positions 1..n that are not in axes (given 0-based), in order
RECURSIVE FreeAxesFrom(_, _, _)
FreeAxesFrom(p, n, axes) ==
  IF p > n THEN <<>>
  ELSE (IF (p - 1) \in Range(axes) THEN <<>> ELSE <<p>>)
       \o FreeAxesFrom(p + 1, n, axes)

FreeAxes(A, axes) == FreeAxesFrom(1, Len(A.shape), axes)

PosIn(q, v) == CHOOSE j \in DOMAIN q : q[j] = v

\* xp.tensordot(A, B, axes=[axA, axB]): the axes axA of A are summed against
\* the axes axB of B; the result has A's remaining axes, then B's
tensordot(A, B, axA, axB) ==
  LET ra == Len(A.shape)
      rb == Len(B.shape)
      fa == FreeAxes(A, axA)
      fb == FreeAxes(B, axB)
      nfa == Len(fa)
      sa == [j \in 1..nfa |-> A.shape[fa[j]]]
      sb == [j \in 1..Len(fb) |-> B.shape[fb[j]]]
      ks == [j \in 1..Len(axA) |-> A.shape[axA[j] + 1]]
      K == IndexSeq(ks)
      \* where the index of each axis comes from: j > 0 is the j-th index of
      \* the result, j < 0 the (-j)-th summed index
      srcA == [p \in 1..ra |-> IF (p - 1) \in Range(axA)
                               THEN 0 - PosIn(axA, p - 1) ELSE PosIn(fa, p)]
      srcB == [p \in 1..rb |-> IF (p - 1) \in Range(axB)
                               THEN 0 - PosIn(axB, p - 1) ELSE nfa + PosIn(fb, p)]
      Cell(idx) ==
        SumSeq([j \in 1..Len(K) |->
          A.data[[p \in 1..ra |->
                    IF srcA[p] > 0 THEN idx[srcA[p]] ELSE K[j][0 - srcA[p]]]]
          * B.data[[p \in 1..rb |->
                    IF srcB[p] > 0 THEN idx[srcB[p]] ELSE K[j][0 - srcB[p]]]]],
          Len(K))
  IN Arr(sa \o sb, [idx \in Indices(sa \o sb) |-> Cell(idx)])

\* A.transpose(perm)
transpose(A, perm) ==
  LET s == [j \in 1..Len(perm) |-> A.shape[perm[j] + 1]]
      src == [p \in 1..Len(perm) |-> PosIn(perm, p - 1)]
      Cell(idx) == A.data[[p \in 1..Len(perm) |-> idx[src[p]]]]
  IN Arr(s, [idx \in Indices(s) |-> Cell(idx)])

\* X[ids]: integer-array indexing along the first axis (ids holds 0-based rows)
take(A, ids) ==
  LET r == Len(ids.shape)
      Cell(idx) == A.data[<<ids.data[SubSeq(idx, 1, r)] + 1>>
                          \o SubSeq(idx, r + 1, Len(idx))]
      s == ids.shape \o Tail(A.shape)
  IN Arr(s, [idx \in Indices(s) |-> Cell(idx)])

\* A.sum(axis=0)
sum_axis0(A) ==
  LET Cell(idx) ==
        SumSeq([k \in 1..Head(A.shape) |-> A.data[<<k>> \o idx]], Head(A.shape))
  IN Arr(Tail(A.shape), [idx \in Indices(Tail(A.shape)) |-> Cell(idx)])

\* A += B, B broadcast over the leading axes of A (B.shape is a suffix of A.shape)
iadd(A, B) ==
  LET off == Len(A.shape) - Len(B.shape)
      Cell(idx) == A.data[idx] + B.data[SubSeq(idx, off + 1, Len(idx))]
  IN Arr(A.shape, [idx \in Indices(A.shape) |-> Cell(idx)])

zeros(s) == Arr(s, [idx \in Indices(s) |-> 0])

None == "None"

\* the sgd argument of a backward closure: None, or an optimizer callback
Callback == "sgd"
SgdArgs == {None, Callback}

\* sample arrays of shape s with entries in 0..(m - 1): one whose entries
\* differ along every axis, and a constant one
Ramp(s, m) == Arr(s, [idx \in Indices(s) |-> SumSeq(idx, Len(idx)) % m])
Arrays(s, m) == {Ramp(s, m), Arr(s, [idx \in Indices(s) |-> m - 1])}

VARIABLES
  \* the last call made: "constructed", then "forward", then "backward"; the
  \* input of the forward call; the gradient passed to the backward closure;
  \* the number of calls of the optimizer callback
  pc, X, dY, sgd_calls,
  \* a PrecomputableAffine / PrecomputableMaxouts layer, the output of its last
  \* begin_update, and the locals of the last call of the closure it returned
  cls, nO, nI, nF, nP, W, b, d_W, d_b, Yf, dW, dXf, n_bwd,
  \* history: the sum of the contributions of the backward calls made since
  \* the gradient buffers were allocated or last zeroed by the optimizer
  acc_W, acc_b,
  \* _flatten_add_lengths / flatten: the layer called, its arguments, the
  \* lengths and the flat buffer of the forward call, and the argument and
  \* the result of finish_update
  fn, seqs, pad, lengths, flat, d_X, unflat,
  \* reapply(layer, n_times) / rebatch(size, layer): the wrapper and the layer
  \* it wraps; the drop argument, the calls of layer.begin_update, the output
  \* and the closures captured by the last forward call (path: whether rebatch
  \* delegated or chunked); the callback, the calls of the captured closures
  \* and the result of the last backward call
  wrap, n_times, size, layer, drop, path, calls, Y, backprops,
  sgd, bp_calls, dX

shared_vars == <<pc, X, dY, sgd_calls>>
layer_vars == <<cls, nO, nI, nF, nP, W, b, d_W, d_b, Yf, dW, dXf, n_bwd>>
hist_vars == <<acc_W, acc_b>>
flat_vars == <<fn, seqs, pad, lengths, flat, d_X, unflat>>
wrap_vars == <<wrap, n_times, size, layer, drop, path, calls, Y, backprops,
               sgd, bp_calls, dX>>
vars == <<shared_vars, layer_vars, hist_vars, flat_vars, wrap_vars>>

\* the variables of a component that is not part of the specification
LayerIdle ==
  /\ cls = None /\ nO = None /\ nI = None /\ nF = None /\ nP = None
  /\ W = None /\ b = None /\ d_W = None /\ d_b = None
  /\ Yf = None /\ dW = None /\ dXf = None /\ n_bwd = 0
  /\ acc_W = None /\ acc_b = None

FlattenIdle ==
  /\ fn = None /\ seqs = None /\ pad = None /\ lengths = None
  /\ flat = None /\ d_X = None /\ unflat = None

WrapIdle ==
  /\ wrap = None /\ n_times = None /\ size = None /\ layer = None
  /\ drop = None /\ path = None /\ calls = None /\ Y = None
  /\ backprops = None /\ sgd = None /\ bp_calls = None /\ dX = None

(* ------------------------------------------------------------------ *)
(* PrecomputableAffine, PrecomputableMaxouts                            *)
(* ------------------------------------------------------------------ *)
DefaultPieces == 3
Affine == "PrecomputableAffine"
Maxouts == "PrecomputableMaxouts"

\* the shape of W: (nF, nO, nI), or (nF, nO, nP, nI) with pieces
W_shape(c, f, o, p, i) == IF c = Affine THEN <<f, o, i>> ELSE <<f, o, p, i>>

\* the shape of b: (nO,), or (nO, nP) with pieces
b_shape(c, o, p) == IF c = Affine THEN <<o>> ELSE <<o, p>>

\* the weights after initialisation: not all zero (the initialiser draws
\* them at random; two representatives)
InitWeights(s) ==
  { Arr(s, [idx \in Indices(s) |-> (SumSeq(idx, Len(idx)) % 3) - 1]) }

\* begin_update's forward part: Yf = tensordot(X, W); Yf += b
AffineForward(c, x, w, bias) ==
  IF c = Affine
  THEN iadd(tensordot(x, w, <<1>>, <<2>>), bias)
  ELSE iadd(tensordot(x, w, <<1>>, <<3>>), bias)

\* (mutant) the contraction taken with its operands swapped
Backward_dXf_swapped(c, dy, w) ==
  IF c = Affine
  THEN tensordot(w, dy, <<1>>, <<1>>)
  ELSE tensordot(w, dy, <<1, 2>>, <<1, 2>>)

\* backward: the gradient of the input
Backward_dXf(c, dy, w) ==
  IF c = Affine
  THEN tensordot(dy, w, <<1>>, <<1>>)
  ELSE tensordot(dy, w, <<1, 2>>, <<1, 2>>)

\* backward: the contribution added to d_W
Backward_dW(c, dy, x, ids) ==
  LET Xf == take(x, ids) IN
  IF c = Affine
  THEN transpose(tensordot(dy, Xf, <<0>>, <<0>>), <<1, 0, 2>>)
  ELSE transpose(tensordot(dy, Xf, <<0>>, <<0>>), <<2, 0, 1, 3>>)

\* (mutant) the contribution assigned, not added
Overwrite_d_W(grad, contribution) == contribution

\* backward: self.d_W += dW.transpose(...)
Accumulate_d_W(grad, contribution) == iadd(grad, contribution)

\* backward: self.d_b += dY.sum(axis=0)
Accumulate_d_b(grad, dy) == iadd(grad, sum_axis0(dy))

\* the optimizer callback sgd(weights, gradient, key): it takes a step along
\* the gradient and zeroes the gradient buffer
sgd_weights(w, grad) ==
  Arr(w.shape, [idx \in Indices(w.shape) |-> w.data[idx] - grad.data[idx]])
sgd_gradient(grad) == zeros(grad.shape)

\* __init__(nO, nI, nF[, nP]) and the allocation of the buffers
Construct(c, o, i, f, p) ==
  /\ cls = c /\ nO = o /\ nI = i /\ nF = f /\ nP = p
  /\ W \in InitWeights(W_shape(cls, nF, nO, nP, nI))
  /\ b = zeros(b_shape(cls, nO, nP))
  /\ d_W = zeros(W_shape(cls, nF, nO, nP, nI))
  /\ d_b = zeros(b_shape(cls, nO, nP))
  /\ pc = "constructed"
  /\ X = None /\ Yf = None /\ dY = None /\ dW = None /\ dXf = None
  /\ n_bwd = 0 /\ sgd_calls = 0
  /\ acc_W = zeros(d_W.shape) /\ acc_b = zeros(d_b.shape)
  /\ FlattenIdle
  /\ WrapIdle


\* layer.begin_update(x)
begin_update(x) ==
  /\ X' = x
  /\ Yf' = AffineForward(cls, x, W, b)
  /\ pc' = "forward"
  /\ dY' = None /\ dW' = None /\ dXf' = None
  /\ UNCHANGED <<cls, nO, nI, nF, nP, W, b, d_W, d_b, n_bwd>>
  /\ UNCHANGED <<sgd_calls, hist_vars, flat_vars, wrap_vars>>

\* the closure returned by begin_update, called as backward((dy, ids), sgd)
backward(dy, ids, s) ==
  \E contribution \in {Backward_dW(cls, dy, X, ids)} :
  \E gW \in {Accumulate_d_W(d_W, contribution)} :
  \E gb \in {Accumulate_d_b(d_b, dy)} :
  /\ pc \in {"forward", "backward"}
  /\ n_bwd' = n_bwd + 1
  /\ pc' = "backward"
  /\ dY' = dy
  /\ dW' = contribution
  /\ dXf' = Backward_dXf(cls, dy, W)
  /\ IF s # None
     THEN /\ W' = sgd_weights(W, gW)
          /\ b' = sgd_weights(b, gb)
          /\ d_W' = sgd_gradient(gW)
          /\ d_b' = sgd_gradient(gb)
          /\ sgd_calls' = sgd_calls + 1
          /\ acc_W' = zeros(gW.shape)
          /\ acc_b' = zeros(gb.shape)
     ELSE /\ d_W' = gW
          /\ d_b' = gb
          /\ acc_W' = iadd(acc_W, contribution)
          /\ acc_b' = iadd(acc_b, sum_axis0(dy))
          /\ UNCHANGED <<W, b, sgd_calls>>
  /\ UNCHANGED <<cls, nO, nI, nF, nP, X, Yf, flat_vars, wrap_vars>>

dY_shape(c, n, o, p) == IF c = Affine THEN <<n, o>> ELSE <<n, o, p>>

\* a call of begin_update (none once the closure calls are used up)
Forward(limit) ==
  /\ n_bwd < limit
  /\ \E n \in 1..MaxBatch : begin_update(Ramp(<<n, nI>>, 3))

\* a call of the closure: at most `limit` calls are made; the gradient has any
\* batch size, or (same_batch) that of X and either sample value
Backward(limit, same_batch) ==
  /\ pc \in {"forward", "backward"}
  /\ n_bwd < limit
  /\ \E n \in (IF same_batch THEN {X.shape[1]} ELSE 1..MaxBatch) :
       \E dy \in (IF same_batch THEN Arrays(dY_shape(cls, n, nO, nP), 2)
                  ELSE {Ramp(dY_shape(cls, n, nO, nP), 2)}) :
         \E s \in SgdArgs :
           backward(dy, Ramp(<<n, nF>>, X.shape[1]), s)

\* layers of every shape within the bound, one forward and one backward call
InitShape ==
  \E c \in {Affine, Maxouts} : \E o \in 1..MaxDim, i \in 1..MaxDim, f \in 1..MaxDim :
    \E p \in (IF c = Affine THEN {1} ELSE {DefaultPieces}) : Construct(c, o, i, f, p)

NextShape == Forward(1) \/ Backward(1, FALSE)

SpecShape == InitShape /\ [][NextShape]_vars

\* layers whose dimensions are all equal, several backward calls
InitLayer ==
  \E c \in {Affine, Maxouts} : \E d \in 1..MaxDim : Construct(c, d, d, d, d)

NextLayer == Forward(MaxCalls) \/ Backward(MaxCalls, TRUE)

SpecLayer == InitLayer /\ [][NextLayer]_vars

(* ------------------------------------------------------------------ *)
(* Claims about the contraction layers                                  *)
(* ------------------------------------------------------------------ *)

\* C4 as stated: after a backward call of PrecomputableAffine the returned
\* input gradient has the shape of the forward input X, and the contribution
\* added to d_W has the shape of W.
C4_ShapeOfX ==
  (pc = "backward" /\ cls = Affine)
    => (dXf.shape = X.shape /\ dW.shape = W.shape)

\* C4 amended: after a backward call of PrecomputableAffine the returned input
\* gradient has the shape (batch size of dY, nF, nI), and the contribution
\* added to d_W has the shape of W, (nF, nO, nI).
C4_GradientShapes ==
  (pc = "backward" /\ cls = Affine)
    => /\ dXf.shape = <<dY.shape[1], nF, nI>>
       /\ dW.shape = W.shape
       /\ W.shape = <<nF, nO, nI>>

C4_Witness ==
  /\ pc = "backward" /\ cls = Affine
  /\ nF = MaxDim /\ nO = 1 /\ nI = MaxDim
  /\ dY.shape[1] # X.shape[1]

\* C8: over backward calls made without an optimizer callback, across forward
\* calls, d_W and d_b equal their value before the calls (zero: as allocated,
\* or as the optimizer left them) plus the sum of the calls' contributions.
C8_Accumulates ==
  /\ d_W = iadd(zeros(W.shape), acc_W)
  /\ d_b = iadd(zeros(b.shape), acc_b)

C8_Witness ==
  /\ pc = "backward" /\ n_bwd = MaxCalls /\ cls = Maxouts
  /\ sgd_calls = 0
  /\ dW # zeros(W.shape)
  /\ d_W # dW
  /\ d_b # sum_axis0(dY)

(* ------------------------------------------------------------------ *)
(* _flatten_add_lengths, flatten                                        *)
(* A row of a sequence is a number other than 0; 0 is an all-zero row.  *)
(* ------------------------------------------------------------------ *)
Rows == {1, 2}

RECURSIVE SeqsUpTo(_, _)
SeqsUpTo(S, n) ==
  IF n = 0 THEN {<<>>}
  ELSE LET shorter == SeqsUpTo(S, n - 1)
       IN shorter \cup {Append(q, x) : q \in {r \in shorter : Len(r) = n - 1}, x \in S}

Batches == SeqsUpTo(SeqsUpTo(Rows, MaxLen), MaxSeqs)

RECURSIVE Concat(_)
Concat(parts) == IF parts = <<>> THEN <<>> ELSE Head(parts) \o Concat(Tail(parts))

ZeroRows(n) == [j \in 1..n |-> 0]

\* ops.flatten(seqs, pad=pad): the sequences joined in order, with pad
\* all-zero rows before the first row and after the last
ops_flatten(parts, p) == ZeroRows(p) \o Concat(parts) \o ZeroRows(p)

\* ops.unflatten(buf, lengths, pad=pad): the leading pad rows are skipped and
\* the rows after them are cut into pieces of the given lengths
RECURSIVE Split(_, _)
Split(buf, lens) ==
  IF lens = <<>> THEN <<>>
  ELSE <<SubSeq(buf, 1, Head(lens))>>
       \o Split(SubSeq(buf, Head(lens) + 1, Len(buf)), Tail(lens))

ops_unflatten(buf, lens, p) == Split(SubSeq(buf, p + 1, Len(buf)), lens)

\* lengths = ops.asarray([len(seq) for seq in seqs])
Lengths(batch) == [j \in 1..Len(batch) |-> Len(batch[j])]

\* (mutant) the closure of _flatten_add_lengths without its pad
finish_update_unpadded(buf, lens, p) == ops_unflatten(buf, lens, 0)

\* the closure finish_update of _flatten_add_lengths
finish_update_add_lengths(buf, lens, p) == ops_unflatten(buf, lens, p)

\* the closure finish_update of flatten
finish_update_flatten(buf, lens) == ops_unflatten(buf, lens, 0)

InitFlatten ==
  /\ pc = "constructed" /\ X = None /\ dY = None /\ sgd_calls = 0
  /\ LayerIdle
  /\ FlattenIdle
  /\ WrapIdle

\* _flatten_add_lengths(batch, pad=p)
flatten_add_lengths(batch, p) ==
  /\ fn' = "_flatten_add_lengths"
  /\ seqs' = batch
  /\ pad' = p
  /\ lengths' = Lengths(batch)
  /\ flat' = ops_flatten(batch, p)
  /\ d_X' = None /\ unflat' = None
  /\ pc' = "forward"
  /\ UNCHANGED <<X, dY, sgd_calls, layer_vars, hist_vars, wrap_vars>>

\* flatten(batch)
flatten(batch) ==
  /\ fn' = "flatten"
  /\ seqs' = batch
  /\ pad' = 0
  /\ lengths' = Lengths(batch)
  /\ flat' = ops_flatten(batch, 0)
  /\ d_X' = None /\ unflat' = None
  /\ pc' = "forward"
  /\ UNCHANGED <<X, dY, sgd_calls, layer_vars, hist_vars, wrap_vars>>

\* finish_update(buf): the closure returned by the last forward call
finish_update(buf) ==
  /\ pc \in {"forward", "backward"}
  /\ d_X' = buf
  /\ unflat' = IF fn = "flatten"
               THEN finish_update_flatten(buf, lengths)
               ELSE finish_update_add_lengths(buf, lengths, pad)
  /\ pc' = "backward"
  /\ UNCHANGED <<fn, seqs, pad, lengths, flat>>
  /\ UNCHANGED <<X, dY, sgd_calls, layer_vars, hist_vars, wrap_vars>>

\* One forward call is followed: a later one replaces every variable the
\* first one set, so it reaches no other state.
FlattenAddLengths ==
  /\ pc = "constructed"
  /\ \E batch \in Batches, p \in 0..MaxPad : flatten_add_lengths(batch, p)

Flatten ==
  /\ pc = "constructed"
  /\ \E batch \in Batches : flatten(batch)

\* the closure is given the buffer its forward call returned, or a gradient
\* of the same length
FinishUpdate ==
  /\ pc \in {"forward", "backward"}
  /\ \E buf \in {flat, [j \in 1..Len(flat) |-> j]} : finish_update(buf)

NextFlatten == FlattenAddLengths \/ Flatten \/ FinishUpdate

SpecFlatten == InitFlatten /\ [][NextFlatten]_vars

\* C1: the closure of _flatten_add_lengths (any pad) or of flatten, given the
\* flat buffer its own forward call produced, returns the batch: as many
\* sequences, each of its length, with its rows in order.
C1_RoundTrip ==
  (pc = "backward" /\ d_X = flat) => unflat = seqs

C1_Witness ==
  /\ pc = "backward" /\ d_X = flat /\ fn = "_flatten_add_lengths"
  /\ pad = MaxPad /\ Len(seqs) = MaxSeqs
  /\ seqs[1] = <<>> /\ Len(seqs[MaxSeqs]) = MaxLen
  /\ unflat = seqs

(* ------------------------------------------------------------------ *)
(* reapply, rebatch                                                     *)
(* A batch is a sequence of rows. A gradient a closure may or may not   *)
(* return is Some(rows) or Nothing (Python's None).                     *)
(* ------------------------------------------------------------------ *)
DefaultDrop == 0
Drops == {DefaultDrop, 1}

Some(v) == [none |-> FALSE, val |-> v]
Nothing == [none |-> TRUE, val |-> <<>>]

\* The wrapped layers. Each maps the rows of its batch one by one.
\*   Scale: doubles each row; its closure returns a new array, and calls the
\*     optimizer callback it is given (the layer owns parameters)
\*   Identity: returns its input, and its closure the very array it is given
\*   NoGrad: a layer whose closure may return no gradient; owns parameters
\*   Repeat: gives each row twice; its closure returns no gradient
Scale == "scale"
Identity == "identity"
NoGrad == "no_grad"
Repeat == "repeat"

OwnsParameters(l) == l \in {Scale, NoGrad}
ReturnsArgument(l) == l = Identity
Produces(l) ==
  IF l = NoGrad THEN BOOLEAN ELSE IF l = Repeat THEN {FALSE} ELSE {TRUE}

\* the output of layer.begin_update(x)
LayerForward(l, x) ==
  CASE l = Scale -> [j \in 1..Len(x) |-> 2 * x[j]]
    [] l = Identity -> x
    [] l = NoGrad -> [j \in 1..Len(x) |-> x[j] + 1]
    [] l = Repeat -> [j \in 1..(2 * Len(x)) |-> x[(j + 1) \div 2]]

\* the gradient a closure of the layer computes from the gradient g
LayerBackward(l, g) ==
  IF l = Scale THEN [j \in 1..Len(g) |-> 2 * g[j]] ELSE g

\* a closure of a layer: the optimizer callback is called when one is given
\* and the layer has parameters (if sgd is not None: sgd(...))
closure_sgd_calls(l, s) == IF OwnsParameters(l) /\ s # None THEN 1 ELSE 0

VAdd(u, v) == [j \in 1..Len(u) |-> u[j] + v[j]]

Min(m, n) == IF m < n THEN m ELSE n

\* (mutant) _divide_array leaving out a last, shorter part
RECURSIVE divide_array_whole(_, _, _)
divide_array_whole(x, sz, index) ==
  IF index + sz <= Len(x)
  THEN <<SubSeq(x, index + 1, index + sz)>> \o divide_array_whole(x, sz, index + sz)
  ELSE <<>>

\* _divide_array(X, size), from the position index on
RECURSIVE divide_array_from(_, _, _)
divide_array_from(x, sz, index) ==
  IF index < Len(x)
  THEN <<SubSeq(x, index + 1, Min(index + sz, Len(x)))>>
       \o divide_array_from(x, sz, index + sz)
  ELSE <<>>

divide_array(x, sz) == divide_array_from(x, sz, 0)

(* ---------------- reapply ---------------- *)

\* the inputs of the n applications of the layer: each output is the next input
RECURSIVE reapply_inputs(_, _, _)
reapply_inputs(l, x, n) ==
  IF n = 0 THEN <<>>
  ELSE <<x>> \o reapply_inputs(l, LayerForward(l, x), n - 1)

\* (mutant) the layer called without the drop argument
reapply_call_no_drop(x, d) == [X |-> x, drop |-> DefaultDrop]

\* reapply_fwd: layer.begin_update(X, drop=drop)
reapply_call(x, d) == [X |-> x, drop |-> d]

\* (mutant) the closures called without the callback
reapply_bwd_no_sgd(s) == None

\* reapply_bwd: backprop(dY, sgd=sgd)
reapply_bwd_sgd(s) == s

\* A closure called on the array st.dY: it returns a new array, or the array
\* it was given. heap holds the arrays; dY and dX are positions in it (dX = 0
\* is Python's None).
call_backprop(l, st) ==
  IF ReturnsArgument(l)
  THEN [heap |-> st.heap, ret |-> st.dY]
  ELSE [heap |-> Append(st.heap, LayerBackward(l, st.heap[st.dY])),
        ret |-> Len(st.heap) + 1]

\* one pass of the loop of reapply_bwd, for the closure backprops[i]
reapply_bwd_step(l, s, st, i) ==
  LET r == call_backprop(l, st)
      entry == [bp |-> i, arg |-> st.heap[st.dY], sgd |-> reapply_bwd_sgd(s),
                ret |-> Some(r.heap[r.ret])]
  IN [heap |-> IF st.dX = 0 THEN r.heap
               ELSE [r.heap EXCEPT ![st.dX] = VAdd(r.heap[st.dX], r.heap[r.ret])],
      dY |-> r.ret,
      dX |-> IF st.dX = 0 THEN r.ret ELSE st.dX,
      log |-> Append(st.log, entry)]

\* the loop of reapply_bwd over reversed(backprops), from backprops[i] down
RECURSIVE reapply_bwd_loop(_, _, _, _)
reapply_bwd_loop(l, s, st, i) ==
  IF i = 0 THEN st
  ELSE reapply_bwd_loop(l, s, reapply_bwd_step(l, s, st, i), i - 1)

\* the number of optimizer calls made by the closure calls of a log
RECURSIVE count_sgd(_, _)
count_sgd(l, log) ==
  IF log = <<>> THEN 0
  ELSE closure_sgd_calls(l, Head(log).sgd) + count_sgd(l, Tail(log))

reapply_fwd(x, d) ==
  LET inputs == reapply_inputs(layer, x, n_times) IN
  /\ wrap = "reapply"
  /\ X' = x /\ drop' = d
  /\ calls' = [i \in 1..n_times |-> reapply_call(inputs[i], d)]
  /\ backprops' = [i \in 1..n_times |-> [X |-> inputs[i]]]
  /\ Y' = LayerForward(layer, inputs[n_times])
  /\ path' = "reapply"
  /\ pc' = "forward"
  /\ dY' = None /\ sgd' = None /\ bp_calls' = <<>> /\ dX' = Nothing
  /\ sgd_calls' = 0
  /\ UNCHANGED <<wrap, n_times, size, layer, layer_vars, hist_vars, flat_vars>>

reapply_bwd(g, s) ==
  LET st == reapply_bwd_loop(layer, s,
              [heap |-> <<g>>, dY |-> 1, dX |-> 0, log |-> <<>>], Len(backprops))
  IN
  /\ wrap = "reapply"
  /\ dY' = g /\ sgd' = s
  /\ bp_calls' = st.log
  /\ dX' = Some(st.heap[st.dX])
  /\ sgd_calls' = count_sgd(layer, st.log)
  /\ pc' = "backward"
  /\ UNCHANGED <<X, wrap, n_times, size, layer, drop, path, calls, Y, backprops>>
  /\ UNCHANGED <<layer_vars, hist_vars, flat_vars>>

(* ---------------- rebatch ---------------- *)

\* forward, X.shape[0] < size: layer.begin_update(X)
rebatch_direct_call(x, d) == [X |-> x, drop |-> DefaultDrop]

\* forward, otherwise: layer.begin_update(p, drop=drop) for p in parts
rebatch_chunk_call(part, d) == [X |-> part, drop |-> d]

\* (mutant) the parts that have a gradient joined, the others left out
RECURSIVE present(_)
present(d_parts) ==
  IF d_parts = <<>> THEN <<>>
  ELSE (IF Head(d_parts).none THEN <<>> ELSE <<Head(d_parts).val>>)
       \o present(Tail(d_parts))

rebatch_dX_partial(d_parts) == Some(ops_flatten(present(d_parts), 0))

\* backward: dX = ops.flatten(d_parts), or None when that raises TypeError or
\* ValueError, as it does when a part is None
rebatch_dX(d_parts) ==
  IF \E i \in DOMAIN d_parts : d_parts[i].none
  THEN Nothing
  ELSE Some(ops_flatten([i \in DOMAIN d_parts |-> d_parts[i].val], 0))

\* (mutant) the closures given the parts of the gradient in reverse order
rebatch_bp_calls_reversed(l, s, bps, dparts, produce) ==
  [i \in 1..Min(Len(bps), Len(dparts)) |->
     [bp |-> i, arg |-> dparts[Len(dparts) + 1 - i], sgd |-> s,
      ret |-> IF produce[i]
              THEN Some(LayerBackward(l, dparts[Len(dparts) + 1 - i]))
              ELSE Nothing]]

\* backward: bp(y, sgd=sgd) for bp, y in zip(bp_results, _divide_array(dy, size))
rebatch_bp_calls(l, s, bps, dparts, produce) ==
  [i \in 1..Min(Len(bps), Len(dparts)) |->
     [bp |-> i, arg |-> dparts[i], sgd |-> s,
      ret |-> IF produce[i] THEN Some(LayerBackward(l, dparts[i])) ELSE Nothing]]

rebatch_forward(x, d) ==
  /\ wrap = "rebatch"
  /\ X' = x /\ drop' = d
  /\ IF Len(x) < size
     THEN /\ path' = "direct"
          /\ calls' = <<rebatch_direct_call(x, d)>>
          /\ backprops' = <<[X |-> x]>>
          /\ Y' = LayerForward(layer, x)
     ELSE LET parts == divide_array(x, size) IN
          /\ path' = "chunked"
          /\ calls' = [i \in DOMAIN parts |-> rebatch_chunk_call(parts[i], d)]
          /\ backprops' = [i \in DOMAIN parts |-> [X |-> parts[i]]]
          /\ Y' = ops_flatten([i \in DOMAIN parts |-> LayerForward(layer, parts[i])], 0)
  /\ pc' = "forward"
  /\ dY' = None /\ sgd' = None /\ bp_calls' = <<>> /\ dX' = Nothing
  /\ sgd_calls' = 0
  /\ UNCHANGED <<wrap, n_times, size, layer, layer_vars, hist_vars, flat_vars>>

\* the closure rebatch returned: the layer's own on the direct path, backward
\* on the chunked one; produce[i] says whether the i-th closure called returns
\* a gradient
rebatch_backward(g, s, produce) ==
  LET log == IF path = "direct"
             THEN rebatch_bp_calls(layer, s, backprops, <<g>>, produce)
             ELSE rebatch_bp_calls(layer, s, backprops, divide_array(g, size), produce)
  IN
  /\ wrap = "rebatch"
  /\ dY' = g /\ sgd' = s
  /\ bp_calls' = log
  /\ dX' = IF path = "direct" THEN log[1].ret
           ELSE rebatch_dX([i \in DOMAIN log |-> log[i].ret])
  /\ sgd_calls' = count_sgd(layer, log)
  /\ pc' = "backward"
  /\ UNCHANGED <<X, wrap, n_times, size, layer, drop, path, calls, Y, backprops>>
  /\ UNCHANGED <<layer_vars, hist_vars, flat_vars>>

(* ---------------- the specification ---------------- *)

Inputs == SeqsUpTo(Rows, MaxRows)

\* the gradients handed to a backward closure: of the length of the output
Gradients(n) == {[j \in 1..n |-> j], [j \in 1..n |-> 1]}

InitWrap ==
  /\ \/ /\ wrap = "reapply" /\ n_times \in 1..MaxTimes /\ size = None
        /\ layer \in {Scale, Identity}
     \/ /\ wrap = "rebatch" /\ size \in 1..MaxSize /\ n_times = None
        /\ layer \in {Scale, Identity, NoGrad, Repeat}
  /\ pc = "constructed" /\ X = None /\ dY = None /\ sgd_calls = 0
  /\ drop = None /\ path = None /\ calls = <<>> /\ Y = None
  /\ backprops = <<>> /\ sgd = None /\ bp_calls = <<>> /\ dX = Nothing
  /\ LayerIdle
  /\ FlattenIdle

\* One forward call is followed: a later one replaces every variable the
\* first one set, so it reaches no other state.
ReapplyFwd ==
  /\ pc = "constructed"
  /\ \E x \in Inputs, d \in Drops : reapply_fwd(x, d)

\* One call of the returned closure is followed: it changes nothing that a
\* second call reads.
ReapplyBwd ==
  /\ pc = "forward"
  /\ \E g \in Gradients(Len(Y)), s \in SgdArgs : reapply_bwd(g, s)

RebatchForward ==
  /\ pc = "constructed"
  /\ \E x \in Inputs, d \in Drops : rebatch_forward(x, d)

RebatchBackward ==
  /\ pc = "forward"
  /\ \E g \in Gradients(Len(Y)), s \in SgdArgs :
       \E produce \in [1..Len(backprops) -> Produces(layer)] :
         rebatch_backward(g, s, produce)

NextWrap == ReapplyFwd \/ ReapplyBwd \/ RebatchForward \/ RebatchBackward

SpecWrap == InitWrap /\ [][NextWrap]_vars

(* ------------------------------------------------------------------ *)
(* Claims about reapply and rebatch                                     *)
(* ------------------------------------------------------------------ *)
Called == pc \in {"forward", "backward"}

\* the rows the layer returned for the i-th chunk, and where they start in Y
OutLen(i) == Len(LayerForward(layer, backprops[i].X))

RECURSIVE OutStart(_)
OutStart(i) == IF i = 1 THEN 0 ELSE OutStart(i - 1) + OutLen(i - 1)

RECURSIVE SumRets(_, _)
SumRets(log, n) ==
  IF n = 1 THEN log[1].ret.val ELSE VAdd(SumRets(log, n - 1), log[n].ret.val)

\* C2: when the batch has at least size rows, the output of rebatch(size, L)
\* is the output of L on the whole batch.
C2_ChunkInvariance ==
  (wrap = "rebatch" /\ Called /\ Len(X) >= size)
    => (path = "chunked" /\ Y = LayerForward(layer, X))

C2_Witness ==
  /\ wrap = "rebatch" /\ pc = "forward" /\ layer = Repeat
  /\ Len(X) = MaxRows /\ size > 1 /\ Len(X) % size # 0
  /\ X[1] # X[MaxRows]
  /\ Y = LayerForward(layer, X)

\* C3 as stated: in one backward pass the callback is called at most once for
\* a layer that owns parameters, and never when none is supplied, also under
\* reapply with n_times >= 2 and under rebatch with two or more chunks.
C3_AtMostOnce ==
  (pc = "backward" /\ wrap # None /\ OwnsParameters(layer))
    => (sgd_calls <= 1 /\ (sgd = None => sgd_calls = 0))

\* C3 amended: every call of a closure of the layer calls the callback once
\* when one is supplied and never otherwise; one backward pass calls each
\* captured closure at most once: all n_times of them under reapply, one for
\* each chunk under rebatch.
C3_OncePerClosureCall ==
  (pc = "backward" /\ wrap # None)
    => /\ sgd_calls = (IF sgd # None /\ OwnsParameters(layer)
                       THEN Len(bp_calls) ELSE 0)
       /\ \A i, j \in DOMAIN bp_calls :
            bp_calls[i].bp = bp_calls[j].bp => i = j
       /\ \A i \in DOMAIN bp_calls : bp_calls[i].sgd = sgd
       /\ wrap = "reapply" => Len(bp_calls) = n_times
       /\ (wrap = "rebatch" /\ path = "direct") => Len(bp_calls) = 1
       /\ (wrap = "rebatch" /\ path = "chunked" /\ layer # Repeat)
            => Len(bp_calls) = Len(backprops)

C3_Witness ==
  /\ pc = "backward" /\ wrap = "rebatch" /\ path = "chunked" /\ layer = Scale
  /\ sgd = Callback /\ Len(backprops) >= 2
  /\ sgd_calls = Len(backprops)

\* C5: reapply's backward calls the n_times captured closures in reverse
\* order of capture, each once; the first is given dY and each later one the
\* gradient the one before it returned; the result is the elementwise sum of
\* the gradients the closures returned.
C5_ReverseChain ==
  (wrap = "reapply" /\ pc = "backward")
    => /\ Len(bp_calls) = n_times
       /\ \A j \in 1..n_times : bp_calls[j].bp = n_times + 1 - j
       /\ bp_calls[1].arg = dY
       /\ \A j \in 2..n_times : bp_calls[j].arg = bp_calls[j - 1].ret.val
       /\ dX = Some(SumRets(bp_calls, n_times))

\* C6 as stated, for any wrapped layer: on the chunked path the i-th closure
\* is given the rows of dy that stand where the i-th chunk's output rows stand
\* in y, every closure is called once, in chunk order, and the result is the
\* gradients of the chunks joined in order.
C6_SameBoundaries ==
  (wrap = "rebatch" /\ pc = "backward" /\ path = "chunked")
    => /\ Len(bp_calls) = Len(backprops)
       /\ \A i \in DOMAIN bp_calls :
            /\ bp_calls[i].bp = i
            /\ bp_calls[i].arg = SubSeq(dY, OutStart(i) + 1, OutStart(i) + OutLen(i))
       /\ (\A i \in DOMAIN bp_calls : ~bp_calls[i].ret.none)
            => dX = Some(Concat([i \in DOMAIN bp_calls |-> bp_calls[i].ret.val]))

\* C6 amended: the same, for a wrapped layer that returns one output row for
\* each input row (and, for the result, when every chunk returned a gradient).
C6_SameBoundariesRowwise ==
  (/\ wrap = "rebatch" /\ pc = "backward" /\ path = "chunked"
   /\ \A i \in DOMAIN backprops : OutLen(i) = Len(backprops[i].X))
    => /\ Len(bp_calls) = Len(backprops)
       /\ \A i \in DOMAIN bp_calls :
            /\ bp_calls[i].bp = i
            /\ bp_calls[i].arg = SubSeq(dY, OutStart(i) + 1, OutStart(i) + OutLen(i))
            /\ bp_calls[i].arg = SubSeq(dY, (i - 1) * size + 1, Min(i * size, Len(X)))
       /\ (\A i \in DOMAIN bp_calls : ~bp_calls[i].ret.none)
            => dX = Some(Concat([i \in DOMAIN bp_calls |-> bp_calls[i].ret.val]))

C6_Witness ==
  /\ wrap = "rebatch" /\ pc = "backward" /\ path = "chunked" /\ layer = Scale
  /\ Len(backprops) >= 2 /\ Len(X) % size # 0
  /\ dY[1] # dY[Len(dY)]
  /\ ~dX.none /\ Len(dX.val) = Len(X)

\* C7: on the chunked path, if a chunk's closure returns None, rebatch's
\* backward returns None, not the gradients of the other chunks.
C7_AbsentGradient ==
  (/\ wrap = "rebatch" /\ pc = "backward" /\ path = "chunked"
   /\ \E i \in DOMAIN bp_calls : bp_calls[i].ret.none)
    => dX = Nothing

C7_Witness ==
  /\ wrap = "rebatch" /\ pc = "backward" /\ path = "chunked"
  /\ \E i, j \in DOMAIN bp_calls : bp_calls[i].ret.none /\ ~bp_calls[j].ret.none
  /\ dX = Nothing

\* C9: with fewer rows than size, rebatch's forward calls the wrapped layer
\* once, on the whole batch, with the drop it was given, and returns the
\* layer's output.
C9_DirectDelegation ==
  (wrap = "rebatch" /\ Called /\ path = "direct")
    => /\ calls = <<[X |-> X, drop |-> drop]>>
       /\ Y = LayerForward(layer, X)

\* C10: reapply(L, 1) calls L once, on X with the caller's drop, and returns
\* L's output; its backward returns what L's closure returns for the same
\* gradient, the callback passed on as given.
C10_ReapplyOnce ==
  (wrap = "reapply" /\ n_times = 1 /\ Called)
    => /\ calls = <<[X |-> X, drop |-> drop]>>
       /\ Y = LayerForward(layer, X)
       /\ pc = "backward" =>
            /\ bp_calls = <<[bp |-> 1, arg |-> dY, sgd |-> sgd,
                             ret |-> Some(LayerBackward(layer, dY))]>>
            /\ dX = Some(LayerBackward(layer, dY))
            /\ sgd_calls = closure_sgd_calls(layer, sgd)

C10_Witness ==
  /\ wrap = "reapply" /\ n_times = 1 /\ pc = "backward" /\ layer = Scale
  /\ drop # DefaultDrop /\ sgd = Callback /\ Len(X) = MaxRows
  /\ dX = Some(LayerBackward(layer, dY))

====
